---- MODULE Spec2Model ----
(***************************************************************************)
(* Amazon Image Renamer (src/src/App.jsx): the ten-slot image grid, the    *)
(* asynchronous ingestion of files, drag reordering, the two exports, the  *)
(* manual-link list and the object-URL registry of the browser.            *)
(*                                                                         *)
(* Strings the code inspects character by character (file names, media     *)
(* types, the naming fields) are sequences of one-character strings;       *)
(* strings that are only compared are TLA+ strings.                        *)
(***************************************************************************)
EXTENDS Integers, Sequences, FiniteSets, TLC

\* ---------------------------------------------------------------- bounds
\* Spec, the whole application:
\* entries minted by fileToPreview (crypto.randomUUID calls) in one run,
MaxEntries == 1
\* addFiles calls whose previews are still being read,
MaxInflight == 1
\* files in one picked or dropped batch,
MaxBatch == 1
\* the highest slot index the user drags, drops on, removes or targets,
MaxSlot == 1
\* object URLs created before the user stops exporting.
MaxHandles == 1
\* SpecSlots, ingestion and reordering without the exports: the same four.
SlotsMaxEntries == 2
SlotsMaxInflight == 1
SlotsMaxBatch == 2
SlotsMaxSlot == 2
\* SpecExport, browsing, removing and the exports without reordering: the same five.
ExportMaxEntries == 2
ExportMaxInflight == 1
ExportMaxBatch == 2
ExportMaxSlot == 1
ExportMaxHandles == 1
\* SpecFill, whole batches filling the grid: entries minted, addFiles calls in
\* flight, files in a batch, the highest slot removed from, and how many leading
\* files of a batch may fail their preview.
FillMaxEntries == 12
FillMaxInflight == 1
FillMaxBatch == 11
FillMaxSlot == 1
FillVaried == 0
\* revokeObjectURL calls counted per object URL (the count saturates here).
MaxRevokes == 2

\* SpecLinks: one entry, exports until this many object URLs exist
LinksMaxEntries == 1
LinksMaxInflight == 1
LinksMaxBatch == 1
LinksMaxSlot == 0
LinksMaxHandles == 2

\* SpecTokens: whole grids exported as an archive
TokensMaxEntries == 10
TokensMaxInflight == 1
TokensMaxBatch == 10
TokensMaxSlot == 0
TokensMaxHandles == 1

\* SpecRace: two untargeted adds in flight over a grid that fills up
RaceMaxEntries == 13
RaceMaxInflight == 2
RaceSmallBatch == 2
RaceLargeBatch == 9
RaceMaxSlot == 1

\* SpecDemo: the longest list of the list-based demo, its pending debounce timers
DemoMaxFiles == 3
DemoMaxTimers == 2

\* SpecNames: the longest text typed into the product field
MaxNameLen == 3

\* ------------------------------------------------------ program constants
\* useState(Array(10).fill(null)) and the slice(0, 10) of addFiles
NumSlots == 10
BatchCap == 10
\* padStart(2, "0")
PadWidth == 2

Slots == 0 .. (NumSlots - 1)
\* dragIndex.current === null, targetIndex == null
NoIndex == -1

\* ------------------------------------------------------- string helpers
Digits == <<"0", "1", "2", "3", "4", "5", "6", "7", "8", "9">>

RECURSIVE ToStr(_)
\* String(i) for a natural number
ToStr(n) == IF n < 10 THEN Digits[n + 1] ELSE ToStr(n \div 10) \o Digits[(n % 10) + 1]

\* padStart filling at the wrong end
padEnd(s, w, c) == IF Len(s) >= w THEN s ELSE s \o c

RECURSIVE padStart(_, _, _)
\* String.prototype.padStart with a one-character filler
padStart(s, w, c) == IF Len(s) >= w THEN s ELSE padStart(c \o s, w, c)

\* String.prototype.startsWith on character sequences
startsWith(s, p) == Len(s) >= Len(p) /\ SubSeq(s, 1, Len(p)) = p

endsWith(s, p) == Len(s) >= Len(p) /\ SubSeq(s, Len(s) - Len(p) + 1, Len(s)) = p

RECURSIVE Join(_)
\* a character sequence as one string
Join(cs) == IF cs = <<>> THEN "" ELSE Head(cs) \o Join(Tail(cs))

LowerLetters == <<"a", "b", "c", "d", "e", "f", "g", "h", "i", "j", "k", "l", "m",
                  "n", "o", "p", "q", "r", "s", "t", "u", "v", "w", "x", "y", "z">>

UpperLetters == <<"A", "B", "C", "D", "E", "F", "G", "H", "I", "J", "K", "L", "M",
                  "N", "O", "P", "Q", "R", "S", "T", "U", "V", "W", "X", "Y", "Z">>

\* position of c in the alphabet letters, 0 when it is not one of them
LetterIndex(letters, c) ==
    IF \E i \in 1 .. Len(letters) : letters[i] = c
    THEN CHOOSE i \in 1 .. Len(letters) : letters[i] = c
    ELSE 0

\* String.prototype.toLowerCase
toLowerCase(cs) ==
    [i \in 1 .. Len(cs) |->
        LET k == LetterIndex(UpperLetters, cs[i]) IN IF k = 0 THEN cs[i] ELSE LowerLetters[k]]

\* toUpperCase that also lowers the capitals
toggleCase(cs) ==
    [i \in 1 .. Len(cs) |->
        LET k == LetterIndex(LowerLetters, cs[i])
            u == LetterIndex(UpperLetters, cs[i])
        IN  IF k # 0 THEN UpperLetters[k] ELSE IF u # 0 THEN LowerLetters[u] ELSE cs[i]]

\* String.prototype.toUpperCase
toUpperCase(cs) ==
    [i \in 1 .. Len(cs) |->
        LET k == LetterIndex(LowerLetters, cs[i]) IN IF k = 0 THEN cs[i] ELSE UpperLetters[k]]

\* \s of a regular expression, on the characters the model types
IsSpace(c) == c \in {" ", "\t"}

RECURSIVE trimStart(_)
trimStart(cs) == IF cs # <<>> /\ IsSpace(Head(cs)) THEN trimStart(Tail(cs)) ELSE cs

RECURSIVE trimEnd(_)
trimEnd(cs) ==
    IF cs # <<>> /\ IsSpace(cs[Len(cs)]) THEN trimEnd(SubSeq(cs, 1, Len(cs) - 1)) ELSE cs

\* String.prototype.trim
trim(cs) == trimEnd(trimStart(cs))

RECURSIVE collapseSpaces(_)
\* replace(/\s+/g, "_"): each maximal run of whitespace becomes one underscore
collapseSpaces(cs) ==
    IF cs = <<>> THEN <<>>
    ELSE IF IsSpace(Head(cs)) THEN <<"_">> \o collapseSpaces(trimStart(cs))
    ELSE <<Head(cs)>> \o collapseSpaces(Tail(cs))

\* [A-Z0-9_]
IsNameChar(c) ==
    \/ LetterIndex(UpperLetters, c) # 0
    \/ \E i \in 1 .. Len(Digits) : Digits[i] = c
    \/ c = "_"

\* replaceSpecials removing the characters instead
stripSpecials(cs) == SelectSeq(cs, IsNameChar)

\* replace(/[^A-Z0-9_]/g, "_"): every other character becomes an underscore
replaceSpecials(cs) == [i \in 1 .. Len(cs) |-> IF IsNameChar(cs[i]) THEN cs[i] ELSE "_"]

\* Sanitize strings for filenames
normalize(s) == replaceSpecials(collapseSpaces(toUpperCase(trim(s))))

\* imageTypeForIndex giving every rank the same token
imageTypeForIndexMain(i) == "MAIN"

\* imageTypeForIndex without the padding: PT1 for PT01
imageTypeForIndexUnpadded(i) == IF i = 0 THEN "MAIN" ELSE "PT" \o ToStr(i)

\* Map a position (0-based among FILLED tiles) to Amazon type
imageTypeForIndex(i) == IF i = 0 THEN "MAIN" ELSE "PT" \o padStart(ToStr(i), PadWidth, "0")

RECURSIVE lastDot(_, _)
\* index of the last "." of cs at or before position i, 0 when there is none
lastDot(cs, i) == IF i = 0 THEN 0 ELSE IF cs[i] = "." THEN i ELSE lastDot(cs, i - 1)

\* /\.([^.]+)$/ : the non-empty suffix after the last dot, else "jpg"; lower-cased
getExt(name) ==
    LET d == lastDot(name, Len(name))
    IN  IF d = 0 \/ d = Len(name) THEN "jpg"
        ELSE Join(toLowerCase(SubSeq(name, d + 1, Len(name))))

\* ------------------------------------------------------------ data model
\* File objects the user can pick or drop: name and declared media type
FileA == [name |-> <<"a", ".", "j", "p", "g">>, type |-> <<"i", "m", "a", "g", "e", "/", "j", "p", "e", "g">>]
FileB == [name |-> <<"b", ".", "p", "n", "g">>, type |-> <<>>]
FileN == [name |-> <<"n", ".", "t", "x", "t">>, type |-> <<"t", "e", "x", "t", "/", "p", "l", "a", "i", "n">>]
NoFile == [name |-> <<>>, type |-> <<>>]

Candidates == {FileA, FileB, FileN}

\* the files SpecSlots picks from: one the filter accepts, one it rejects
SlotsCandidates == {FileA, FileN}

\* A URL string: its scheme and, for a blob: URL, the number of the object URL
EmptyUrl == [scheme |-> "", n |-> 0]
DataUrl == [scheme |-> "data", n |-> 0]
BlobUrl(h) == [scheme |-> "blob", n |-> h]

\* url.startsWith("blob:")
IsBlob(u) == u.scheme = "blob"

\* an empty slot (null)
NULL == [id |-> 0, file |-> NoFile, url |-> EmptyUrl, error |-> FALSE]

\* the batches a picker or a drop can deliver
RECURSIVE SeqsUpTo(_, _)
SeqsUpTo(S, n) ==
    IF n = 0 THEN {<<>>}
    ELSE SeqsUpTo(S, n - 1) \cup {Append(q, x) : q \in {r \in SeqsUpTo(S, n - 1) : Len(r) = n - 1}, x \in S}

VARIABLES
    files,          \* the ten slots: NULL or {id, file, url, error}
    nextId,         \* the next identifier crypto.randomUUID hands out
    inflight,       \* addFiles calls awaiting Promise.all, oldest first
    dragIndex,      \* dragIndex.current
    product,        \* the product field
    date,           \* the date field
    diff,           \* the differentiator field
    busy,           \* an export is running
    status,         \* the status line
    notice,         \* the alert() the latest step showed, "" when it showed none
    pendingLinks,   \* manual links [{name, url}]
    urls,           \* the object URLs created: urls[h] counts the revokeObjectURL calls on h
    timers,         \* object URLs with a setTimeout(revokeObjectURL) pending
    zip,            \* the archive export awaiting its reads and generateAsync
    downloads,      \* the download triggers the latest step attempted, in order
    archive,        \* the archive the latest step built: [{path, id}]
    mounted,        \* the component is mounted
    picker,         \* the slot whose file dialog (openSlotPicker) is open, or NoIndex
    last            \* the latest handler or continuation that ran

vars == <<files, nextId, inflight, dragIndex, product, date, diff, busy, status, notice,
          pendingLinks, urls, timers, zip, downloads, archive, mounted,
          picker, last>>

\* ------------------------------------------------------ derived values
RECURSIVE filterSlots(_, _)
\* files.filter(Boolean), from slot i on
filterSlots(fs, i) ==
    IF i >= NumSlots THEN <<>>
    ELSE IF fs[i] # NULL THEN <<fs[i]>> \o filterSlots(fs, i + 1)
    ELSE filterSlots(fs, i + 1)

\* const filled = useMemo(() => files.filter(Boolean), [files])
filledOf(fs) == filterSlots(fs, 0)

filled == filledOf(files)

\* Array.prototype.indexOf, 0-based, -1 when absent
indexOf(seq, x) ==
    IF \E i \in 1 .. Len(seq) : seq[i] = x
    THEN (CHOOSE i \in 1 .. Len(seq) : seq[i] = x /\ \A j \in 1 .. (i - 1) : seq[j] # x) - 1
    ELSE -1

buildFilenameWith(np, d, nd, index, item) ==
    Join(np) \o "_" \o Join(d) \o "_" \o Join(nd) \o "_" \o imageTypeForIndex(index)
        \o "." \o getExt(item.file.name)

\* buildFilename of the current render
buildFilename(index, item) == buildFilenameWith(normalize(product), date, normalize(diff), index, item)

\* the orange badge of tile idx: "" when no badge is rendered
badge(idx) ==
    LET item == files[idx]
        rank == IF item # NULL THEN indexOf(filled, item) ELSE -1
    IN  IF rank >= 0 THEN imageTypeForIndex(rank) ELSE ""

\* computeFinalNames: the filename preview
computeFinalNames == [i \in 1 .. Len(filled) |-> buildFilename(i - 1, filled[i])]

\* ------------------------------------------------- object URL registry
Min(a, b) == IF a < b THEN a ELSE b

\* URL.createObjectURL: the registry with one more object URL, not yet revoked
createObjectURL(reg) == Append(reg, 0)

\* URL.revokeObjectURL(BlobUrl(h)), counted
revokeObjectURL(reg, h) ==
    IF h \in DOMAIN reg THEN [reg EXCEPT ![h] = Min(MaxRevokes, reg[h] + 1)] ELSE reg

\* The cleanup of the effect keyed on [files, pendingLinks]: it runs with the
\* files and pendingLinks of the render it closed over, whenever either changes
\* and on unmount, and revokes every blob: URL among them.
effectCleanup(reg, oldFiles, oldLinks) ==
    [h \in DOMAIN reg |->
        Min(MaxRevokes,
            reg[h] + Cardinality({i \in Slots : oldFiles[i] # NULL /\ IsBlob(oldFiles[i].url)
                                                  /\ oldFiles[i].url.n = h})
                   + Cardinality({j \in DOMAIN oldLinks : IsBlob(oldLinks[j].url)
                                                  /\ oldLinks[j].url.n = h}))]

\* ------------------------------------------------------- file ingestion
\* /\.(jpe?g|png)$/.test(name)
hasImageExt(name) ==
    \/ endsWith(name, <<".", "j", "p", "g">>)
    \/ endsWith(name, <<".", "j", "p", "e", "g">>)
    \/ endsWith(name, <<".", "p", "n", "g">>)

\* the filter of addFiles
isImage(f) == startsWith(f.type, <<"i", "m", "a", "g", "e", "/">>) \/ hasImageExt(f.name)

\* Array.prototype.slice(0, n)
slice0(seq, n) == SubSeq(seq, 1, Min(Len(seq), n))

\* const imgs = fileList.filter(...).slice(0, 10)
imgsOf(fileList) == slice0(SelectSeq(fileList, isImage), BatchCap)

\* fileToPreview resolving to nothing for the file it could not read
fileToPreviewOrNull(file, id, ok) ==
    IF ok THEN [id |-> id, file |-> file, url |-> DataUrl, error |-> FALSE] ELSE NULL

\* what fileToPreview resolves to for one file: ok is whether the read gave a data: URL
fileToPreview(file, id, ok) ==
    [id |-> id, file |-> file, url |-> IF ok THEN DataUrl ELSE EmptyUrl, error |-> ~ok]

\* Promise.all(imgs.map(fileToPreview)), the identifiers drawn from firstId on
prepare(imgs, firstId, oks) ==
    [k \in 1 .. Len(imgs) |-> fileToPreview(imgs[k], firstId + k - 1, oks[k])]

RECURSIVE fillEmptyOverwrite(_, _, _, _)
\* fillEmpty without its test of the slot: the batch lands on slots 0, 1, ...
fillEmptyOverwrite(next, prepared, i, k) ==
    IF i >= NumSlots \/ k > Len(prepared) THEN next
    ELSE fillEmptyOverwrite([next EXCEPT ![i] = prepared[k]], prepared, i + 1, k + 1)

RECURSIVE fillEmptyUntilOccupied(_, _, _, _)
\* fillEmpty giving up at the first occupied slot
fillEmptyUntilOccupied(next, prepared, i, k) ==
    IF i >= NumSlots \/ k > Len(prepared) \/ next[i] # NULL THEN next
    ELSE fillEmptyUntilOccupied([next EXCEPT ![i] = prepared[k]], prepared, i + 1, k + 1)

RECURSIVE fillEmpty(_, _, _, _)
\* for (let i = 0; i < next.length && k < prepared.length; i++) if (!next[i]) next[i] = prepared[k++]
fillEmpty(next, prepared, i, k) ==
    IF i >= NumSlots \/ k > Len(prepared) THEN next
    ELSE IF next[i] = NULL THEN fillEmpty([next EXCEPT ![i] = prepared[k]], prepared, i + 1, k + 1)
    ELSE fillEmpty(next, prepared, i + 1, k)

\* placePrepared refusing a target that is occupied
placePreparedIfEmpty(prev, prepared, targetIndex) ==
    IF targetIndex # NoIndex
    THEN IF prev[targetIndex] = NULL /\ Len(prepared) >= 1
         THEN [prev EXCEPT ![targetIndex] = prepared[1]]
         ELSE prev
    ELSE fillEmpty(prev, prepared, 0, 1)

\* the updater addFiles passes to setFiles
placePrepared(prev, prepared, targetIndex) ==
    IF targetIndex # NoIndex
    THEN [prev EXCEPT ![targetIndex] = IF Len(prepared) >= 1 THEN prepared[1] ELSE NULL]
    ELSE fillEmpty(prev, prepared, 0, 1)

\* the updater of handleRemove
removeAt(prev, index) == [i \in Slots |-> IF i = index THEN NULL ELSE prev[i]]

\* the guard of swapFiles without its test for null
swapReturnsEarlySameOnly(from, to) == from = to

\* if (from === null || from === to) return;
swapReturnsEarly(from, to) == from = NoIndex \/ from = to

\* next[i] of a ten-element array: undefined, hence an empty slot, off its indices
at(arr, i) == IF i \in Slots THEN arr[i] ELSE NULL

\* swapFiles without the temporary: next[from] = next[to]; next[to] = next[from];
swapFilesNoTemp(prev, from, to) ==
    IF swapReturnsEarly(from, to) THEN prev
    ELSE [i \in Slots |-> IF i = to \/ i = from THEN at(prev, to) ELSE prev[i]]

\* swapFiles moving instead of exchanging: next[to] = next[from]; next[from] = null;
swapFilesMove(prev, from, to) ==
    IF swapReturnsEarly(from, to) THEN prev
    ELSE [i \in Slots |-> IF i = to THEN at(prev, from)
                          ELSE IF i = from THEN NULL
                          ELSE prev[i]]

\* swapFiles: the slots after the call
\*   const temp = next[from]; next[from] = next[to]; next[to] = temp;
swapFiles(prev, from, to) ==
    IF swapReturnsEarly(from, to) THEN prev
    ELSE [i \in Slots |-> IF i = to THEN at(prev, from)
                          ELSE IF i = from THEN at(prev, to)
                          ELSE prev[i]]

\* Array(10).fill(null)
emptySlots == [i \in Slots |-> NULL]

\* entries that in-flight addFiles calls will still mint
pendingMint == LET n[k \in 0 .. Len(inflight)] == IF k = 0 THEN 0 ELSE n[k - 1] + Len(inflight[k].imgs)
               IN  n[Len(inflight)]

\* addFiles up to its await: nothing happens without an accepted file; `seen` notes
\* the occupant of the target at the call, for the properties only
addFilesCall(fileList, targetIndex) ==
    LET imgs == imgsOf(fileList)
    IN  IF imgs = <<>> THEN inflight
        ELSE Append(inflight, [imgs |-> imgs, target |-> targetIndex,
                               seen |-> IF targetIndex = NoIndex THEN 0 ELSE files[targetIndex].id])

Stamp(op, idx, n) == [op |-> op, idx |-> idx, n |-> n]

exportVars == <<busy, status, pendingLinks, timers, zip>>

\* a step that shows no alert and attempts no download
Quiet == notice' = "" /\ downloads' = <<>> /\ archive' = <<>>
slotVars == <<files, nextId, inflight, dragIndex, picker>>
nameVars == <<product, date, diff>>

\* <input type="file" multiple onChange={onPickFiles}>
onPickFiles(picked) ==
    /\ mounted /\ picker = NoIndex
    /\ picked # <<>>
    /\ inflight' = addFilesCall(picked, NoIndex)
    /\ last' = Stamp("onPickFiles", NoIndex, 0)
    /\ Quiet
    /\ UNCHANGED <<files, nextId, dragIndex, urls, mounted, picker, exportVars, nameVars>>

\* a click on an empty tile or on "Replace image" of a tile whose preview failed
openSlotPicker(slotIndex) ==
    /\ mounted /\ picker = NoIndex
    /\ files[slotIndex] = NULL \/ files[slotIndex].url = EmptyUrl
    /\ picker' = slotIndex
    /\ last' = Stamp("openSlotPicker", slotIndex, 0)
    /\ Quiet
    /\ UNCHANGED <<files, nextId, inflight, dragIndex, urls, mounted, exportVars, nameVars>>

\* input.onchange of the slot picker; an empty choice is the dialog being cancelled
slotPicked(picked) ==
    /\ mounted /\ picker # NoIndex
    /\ Len(picked) <= 1
    /\ inflight' = IF picked # <<>> THEN addFilesCall(slice0(picked, 1), picker) ELSE inflight
    /\ picker' = NoIndex
    /\ last' = Stamp("slotPicked", picker, 0)
    /\ Quiet
    /\ UNCHANGED <<files, nextId, dragIndex, urls, mounted, exportVars, nameVars>>

\* the continuation of addFiles after its await: request k resolves, oks[j] telling
\* whether the preview of its j-th file was read; setState after unmount does nothing
resolveAdd(k, oks) ==
    /\ k \in 1 .. Len(inflight)
    /\ LET r == inflight[k]
           prepared == prepare(r.imgs, nextId, oks)
       IN  /\ nextId' = nextId + Len(r.imgs)
           /\ IF mounted
              THEN /\ files' = placePrepared(files, prepared, r.target)
                   /\ urls' = effectCleanup(urls, files, pendingLinks)
              ELSE UNCHANGED <<files, urls>>
           /\ last' = Stamp("resolveAdd", r.target, k)
    /\ inflight' = [j \in 1 .. (Len(inflight) - 1) |-> IF j < k THEN inflight[j] ELSE inflight[j + 1]]
    /\ Quiet
    /\ UNCHANGED <<dragIndex, mounted, picker, exportVars, nameVars>>

handleRemove(index) ==
    /\ mounted /\ picker = NoIndex
    /\ files[index] # NULL
    /\ files' = removeAt(files, index)
    /\ urls' = effectCleanup(urls, files, pendingLinks)
    /\ last' = Stamp("handleRemove", index, 0)
    /\ Quiet
    /\ UNCHANGED <<nextId, inflight, dragIndex, mounted, picker, exportVars, nameVars>>

\* "Clear all" without disabled={busy}
clearAllWhileBusy ==
    /\ mounted /\ picker = NoIndex
    /\ files' = emptySlots
    /\ urls' = effectCleanup(urls, files, pendingLinks)
    /\ last' = Stamp("clearAll", NoIndex, 0)
    /\ Quiet
    /\ UNCHANGED <<nextId, inflight, dragIndex, mounted, picker, exportVars, nameVars>>

\* the "Clear all" button, disabled while busy
clearAll ==
    /\ mounted /\ picker = NoIndex
    /\ ~busy
    /\ files' = emptySlots
    /\ urls' = effectCleanup(urls, files, pendingLinks)
    /\ last' = Stamp("clearAll", NoIndex, 0)
    /\ Quiet
    /\ UNCHANGED <<nextId, inflight, dragIndex, mounted, picker, exportVars, nameVars>>

\* only a filled tile is draggable
onDragStart(idx) ==
    /\ mounted /\ picker = NoIndex
    /\ files[idx] # NULL
    /\ dragIndex' = idx
    /\ last' = Stamp("onDragStart", idx, 0)
    /\ Quiet
    /\ UNCHANGED <<files, nextId, inflight, urls, mounted, picker, exportVars, nameVars>>

\* onDrop without its last statement, dragIndex.current = null
onDropKeepsSource(idx, dropped) ==
    /\ mounted /\ picker = NoIndex
    /\ IF dropped # <<>> /\ files[idx] = NULL
       THEN /\ inflight' = addFilesCall(slice0(dropped, 1), idx)
            /\ last' = Stamp("onDrop.add", idx, 0)
            /\ UNCHANGED <<files, urls>>
       ELSE /\ files' = swapFiles(files, dragIndex, idx)
            /\ urls' = IF swapReturnsEarly(dragIndex, idx) THEN urls
                       ELSE effectCleanup(urls, files, pendingLinks)
            /\ last' = Stamp("onDrop.swap", idx, dragIndex)
            /\ UNCHANGED inflight
    /\ Quiet
    /\ UNCHANGED <<nextId, mounted, picker, exportVars, nameVars, dragIndex>>

\* a drop on tile idx; dropped are the external files of the drag, none for a reorder
onDrop(idx, dropped) ==
    /\ mounted /\ picker = NoIndex
    /\ IF dropped # <<>> /\ files[idx] = NULL
       THEN /\ inflight' = addFilesCall(slice0(dropped, 1), idx)
            /\ last' = Stamp("onDrop.add", idx, 0)
            /\ UNCHANGED <<files, urls>>
       ELSE /\ files' = swapFiles(files, dragIndex, idx)
            /\ urls' = IF swapReturnsEarly(dragIndex, idx) THEN urls
                       ELSE effectCleanup(urls, files, pendingLinks)
            /\ last' = Stamp("onDrop.swap", idx, dragIndex)
            /\ UNCHANGED inflight
    /\ dragIndex' = NoIndex
    /\ Quiet
    /\ UNCHANGED <<nextId, mounted, picker, exportVars, nameVars>>

\* ------------------------------------------------------------ downloads
NoticeEmpty == "Add images first."
NoticeZipBlocked == "Your browser blocked the ZIP download. Click the manual link below."
NoticeZipError == "Something went wrong while creating the ZIP. Check console for details."
NoticeIndividualError == "Something went wrong while starting the downloads. Check console for details."
StatusPreparing == "Preparing ZIP"
StatusZipTriggered == "ZIP download triggered."
StatusZipBlocked == "Browser blocked ZIP download - manual link shown below."
StatusZipError == "Error while creating ZIP."
StatusTriggering == "Triggering individual downloads"
StatusLimited == "Your browser limited multiple automatic downloads - manual links are shown below."
StatusAllTriggered == "All downloads triggered. If prompted, allow multiple downloads for this site."
StatusIndividualError == "Error while starting individual downloads."

\* How one call of triggerDownload can end. "saveAs": FileSaver took the blob.
\* Otherwise saveAs threw and the anchor fallback ran: "anchor" clicked and armed the
\* revoke timer, "urlThrows" failed in createObjectURL, "clickThrows" failed after it.
TriggerOutcomes == {"saveAs", "anchor", "urlThrows", "clickThrows"}

\* How one call of triggerDownloadSync can end, as above without FileSaver.
SyncOutcomes == {"anchor", "urlThrows", "clickThrows"}

\* triggerDownload / triggerDownloadSync from the createObjectURL on: the registry,
\* the timers and the value returned
anchorDownload(reg, tm, outcome) ==
    CASE outcome = "anchor" ->
            [urls |-> createObjectURL(reg), timers |-> tm \cup {Len(reg) + 1}, ok |-> TRUE]
      [] outcome = "clickThrows" ->
            [urls |-> createObjectURL(reg), timers |-> tm, ok |-> FALSE]
      [] outcome = "urlThrows" ->
            [urls |-> reg, timers |-> tm, ok |-> FALSE]

triggerDownload(reg, tm, outcome) ==
    IF outcome = "saveAs" THEN [urls |-> reg, timers |-> tm, ok |-> TRUE]
    ELSE anchorDownload(reg, tm, outcome)

triggerDownloadSync(reg, tm, outcome) == anchorDownload(reg, tm, outcome)

\* `${normalizedProduct}_${date}_${normalizedDiff}.zip`
zipName(np, d, nd) == Join(np) \o "_" \o Join(d) \o "_" \o Join(nd) \o ".zip"

\* withZipLink forgetting the new link
withZipLinkDropped(prev, name, url) == SelectSeq(prev, LAMBDA l : l.name # name)

\* withZipLink forgetting the earlier links
withZipLinkOnly(prev, name, url) == <<[name |-> name, url |-> url]>>

\* [{ name, url }, ...prev.filter((l) => l.name !== name)]
withZipLink(prev, name, url) ==
    <<[name |-> name, url |-> url]>> \o SelectSeq(prev, LAMBDA l : l.name # name)

\* the exports without their test for an empty grid
exportAbortsNever(items) == FALSE

\* if (!filled.length) return alert("Add images first.");
exportAborts(items) == Len(items) = 0

\* JSZip.file(path, data): an entry of that path is replaced, else one is added;
\* the archive lists [path, id], id naming the entry whose bytes are stored
zipFile(arch, path, id) ==
    IF \E j \in 1 .. Len(arch) : arch[j].path = path
    THEN [j \in 1 .. Len(arch) |-> IF arch[j].path = path THEN [path |-> path, id |-> id] ELSE arch[j]]
    ELSE Append(arch, [path |-> path, id |-> id])

RECURSIVE zipAll(_, _, _)
\* filled.map(async (item, i) => zip.file(buildFilename(i, item), buf)), from item i on
zipAll(c, i, arch) ==
    IF i > Len(c.filled) THEN arch
    ELSE zipAll(c, i + 1,
                zipFile(arch, buildFilenameWith(c.np, c.date, c.nd, i - 1, c.filled[i]),
                        c.filled[i].id))

\* the "Download ZIP" button, disabled while busy; the closure keeps the filled
\* entries and the naming fields of the render the click came from
downloadZip ==
    /\ mounted /\ picker = NoIndex
    /\ ~busy
    /\ IF exportAborts(filled)
       THEN /\ notice' = NoticeEmpty
            /\ last' = Stamp("downloadZip.empty", NoIndex, 0)
            /\ UNCHANGED <<busy, status, zip>>
       ELSE /\ busy' = TRUE
            /\ status' = StatusPreparing
            /\ zip' = <<[filled |-> filled, np |-> normalize(product), date |-> date,
                         nd |-> normalize(diff)]>>
            /\ last' = Stamp("downloadZip", NoIndex, 0)
            /\ notice' = ""
    /\ downloads' = <<>>
    /\ archive' = <<>>
    /\ UNCHANGED <<slotVars, urls, mounted, pendingLinks, timers, nameVars>>

\* zipFails without its finally
zipFailsStaysBusy(how) ==
    /\ zip # <<>>
    /\ how \in {"zip.buildFail", "zip.urlFail"}
    /\ zip' = <<>>
    /\ notice' = NoticeZipError
    /\ IF mounted THEN status' = StatusZipError ELSE UNCHANGED status
    /\ last' = Stamp(how, NoIndex, 0)
    /\ downloads' = <<>>
    /\ archive' = <<>>
    /\ UNCHANGED <<slotVars, urls, mounted, pendingLinks, timers, nameVars, busy>>

\* the reads or generateAsync reject, or createObjectURL(blob) throws: catch and finally
zipFails(how) ==
    /\ zip # <<>>
    /\ how \in {"zip.buildFail", "zip.urlFail"}
    /\ zip' = <<>>
    /\ notice' = NoticeZipError
    /\ IF mounted THEN status' = StatusZipError /\ busy' = FALSE ELSE UNCHANGED <<status, busy>>
    /\ last' = Stamp(how, NoIndex, 0)
    /\ downloads' = <<>>
    /\ archive' = <<>>
    /\ UNCHANGED <<slotVars, urls, mounted, pendingLinks, timers, nameVars>>

\* the archive is built: manual link first, then the automatic download
zipDone(outcome) ==
    /\ zip # <<>>
    /\ LET c == zip[1]
           name == zipName(c.np, c.date, c.nd)
           manualUrl == BlobUrl(Len(urls) + 1)
           t == triggerDownload(createObjectURL(urls), timers, outcome)
       IN  /\ timers' = t.timers
           /\ downloads' = <<[name |-> name, ok |-> t.ok]>>
           /\ archive' = zipAll(c, 1, <<>>)
           /\ notice' = IF t.ok THEN "" ELSE NoticeZipBlocked
           /\ IF mounted
              THEN /\ pendingLinks' = withZipLink(pendingLinks, name, manualUrl)
                   /\ urls' = effectCleanup(t.urls, files, pendingLinks)
                   /\ status' = IF t.ok THEN StatusZipTriggered ELSE StatusZipBlocked
                   /\ busy' = FALSE
              ELSE /\ urls' = t.urls
                   /\ UNCHANGED <<pendingLinks, status, busy>>
    /\ zip' = <<>>
    /\ last' = Stamp("zip.done", NoIndex, 0)
    /\ UNCHANGED <<slotVars, mounted, nameVars>>

\* How the loop body of downloadIndividually can end for one item: the trigger
\* fires ("ok"), or it fails in one of its two ways and createObjectURL(item.file) for
\* the manual link then succeeds (".link") or throws (".throw").
ItemOutcomes == {"ok", "urlThrows.link", "urlThrows.throw", "clickThrows.link", "clickThrows.throw"}

syncOutcomeOf(o) ==
    CASE o = "ok" -> "anchor"
      [] o \in {"urlThrows.link", "urlThrows.throw"} -> "urlThrows"
      [] o \in {"clickThrows.link", "clickThrows.throw"} -> "clickThrows"

manualThrows(o) == o \in {"urlThrows.throw", "clickThrows.throw"}

RECURSIVE individualLoop(_, _, _, _)
\* for (let i = 0; i < filled.length; i++) { ... } from item i on; acc carries the
\* registry, the timers, the manual links, the triggers attempted and whether the
\* loop was left by an exception
individualLoop(items, i, outs, acc) ==
    IF i > Len(items) \/ acc.threw THEN acc
    ELSE LET filename == buildFilename(i - 1, items[i])
             t == triggerDownloadSync(acc.urls, acc.timers, syncOutcomeOf(outs[i]))
             log == Append(acc.log, [name |-> filename, ok |-> t.ok])
         IN  IF t.ok
             THEN individualLoop(items, i + 1, outs,
                     [urls |-> t.urls, timers |-> t.timers, manual |-> acc.manual,
                      log |-> log, threw |-> FALSE])
             ELSE IF manualThrows(outs[i])
             THEN [urls |-> t.urls, timers |-> t.timers, manual |-> acc.manual,
                   log |-> log, threw |-> TRUE]
             ELSE individualLoop(items, i + 1, outs,
                     [urls |-> createObjectURL(t.urls), timers |-> t.timers,
                      manual |-> Append(acc.manual,
                                        [name |-> filename, url |-> BlobUrl(Len(t.urls) + 1)]),
                      log |-> log, threw |-> FALSE])

\* the "Download Individually" button, disabled while busy: one synchronous pass
downloadIndividually ==
    /\ mounted /\ picker = NoIndex
    /\ ~busy
    /\ IF exportAborts(filled)
       THEN /\ notice' = NoticeEmpty
            /\ last' = Stamp("downloadIndividually.empty", NoIndex, 0)
            /\ downloads' = <<>>
            /\ UNCHANGED <<status, pendingLinks, urls, timers>>
       ELSE \E outs \in [1 .. Len(filled) -> ItemOutcomes] :
            LET r == individualLoop(filled, 1, outs,
                        [urls |-> urls, timers |-> timers, manual |-> <<>>, log |-> <<>>,
                         threw |-> FALSE])
            IN  /\ timers' = r.timers
                /\ downloads' = r.log
                /\ IF r.threw
                   THEN /\ status' = StatusIndividualError
                        /\ notice' = NoticeIndividualError
                        /\ urls' = r.urls
                        /\ UNCHANGED pendingLinks
                   ELSE IF r.manual # <<>>
                   THEN /\ pendingLinks' = r.manual \o pendingLinks
                        /\ urls' = effectCleanup(r.urls, files, pendingLinks)
                        /\ status' = StatusLimited
                        /\ notice' = ""
                   ELSE /\ status' = StatusAllTriggered
                        /\ urls' = r.urls
                        /\ notice' = ""
                        /\ UNCHANGED pendingLinks
                /\ last' = Stamp("downloadIndividually", NoIndex, 0)
    /\ archive' = <<>>
    /\ UNCHANGED <<slotVars, busy, zip, mounted, nameVars>>

RECURSIVE revokeLinks(_, _, _)
\* pendingLinks.forEach((l) => l?.url?.startsWith?.('blob:') && URL.revokeObjectURL(l.url))
revokeLinks(reg, links, j) ==
    IF j > Len(links) THEN reg
    ELSE revokeLinks(IF IsBlob(links[j].url) THEN revokeObjectURL(reg, links[j].url.n) ELSE reg,
                     links, j + 1)

\* the "Clear links" button, rendered while there are links
clearLinks ==
    /\ mounted /\ picker = NoIndex
    /\ pendingLinks # <<>>
    /\ pendingLinks' = <<>>
    /\ urls' = effectCleanup(revokeLinks(urls, pendingLinks, 1), files, pendingLinks)
    /\ last' = Stamp("clearLinks", NoIndex, 0)
    /\ Quiet
    /\ UNCHANGED <<slotVars, busy, status, timers, zip, mounted, nameVars>>

\* setTimeout(() => URL.revokeObjectURL(url), ...) of a download trigger
timerFires(h) ==
    /\ h \in timers
    /\ timers' = timers \ {h}
    /\ urls' = revokeObjectURL(urls, h)
    /\ last' = Stamp("timerFires", NoIndex, h)
    /\ Quiet
    /\ UNCHANGED <<slotVars, busy, status, pendingLinks, zip, mounted, nameVars>>

\* the component is torn down: the effect's cleanup runs a last time
unmount ==
    /\ mounted
    /\ mounted' = FALSE
    /\ urls' = effectCleanup(urls, files, pendingLinks)
    /\ last' = Stamp("unmount", NoIndex, 0)
    /\ Quiet
    /\ UNCHANGED <<slotVars, exportVars, nameVars>>

\* what the user types into the product field
ProductInputs == {<<"T", "W", "-", "N", "O", "S", "E", "K", "I", "T">>, <<"k", " ", "2">>}

setProduct(v) ==
    /\ mounted /\ picker = NoIndex
    /\ product' = v
    /\ last' = Stamp("setProduct", NoIndex, 0)
    /\ Quiet
    /\ UNCHANGED <<slotVars, urls, mounted, exportVars, date, diff>>

\* what the user types into the date field; nothing checks or normalizes it
DateInputs == {<<"2", "0", "2", "5", "1", "1">>, <<"2", "5", "-", "1">>}

setDate(v) ==
    /\ mounted /\ picker = NoIndex
    /\ date' = v
    /\ last' = Stamp("setDate", NoIndex, 0)
    /\ Quiet
    /\ UNCHANGED <<slotVars, urls, mounted, exportVars, product, diff>>

\* what the user types into the differentiator field
DiffInputs == {<<"W", "O", "M", "E", "N", "R", "E", "F", "R", "E", "S", "H">>,
               <<"w", "o", "m", "e", "n", " ", "r", "e", "f", "r", "e", "s", "h">>,
               <<>>}

setDiff(v) ==
    /\ mounted /\ picker = NoIndex
    /\ diff' = v
    /\ last' = Stamp("setDiff", NoIndex, 0)
    /\ Quiet
    /\ UNCHANGED <<slotVars, urls, mounted, exportVars, product, date>>

Init ==
    /\ files = emptySlots
    /\ nextId = 1
    /\ inflight = <<>>
    /\ dragIndex = NoIndex
    /\ product = <<"T", "W", "-", "N", "O", "S", "E", "K", "I", "T">>
    /\ date = <<"2", "0", "2", "5", "1", "1">>
    /\ diff = <<"W", "O", "M", "E", "N", "R", "E", "F", "R", "E", "S", "H">>
    /\ busy = FALSE
    /\ status = ""
    /\ notice = ""
    /\ pendingLinks = <<>>
    /\ urls = <<>>
    /\ timers = {}
    /\ zip = <<>>
    /\ downloads = <<>>
    /\ archive = <<>>
    /\ mounted = TRUE
    /\ picker = NoIndex
    /\ last = Stamp("init", NoIndex, 0)

\* ------------------------------------------------------- the environment
\* The user and the browser drive the handlers; the bounds stop the user from
\* issuing more work, never a continuation from running.

\* the addFiles call a handler is about to make stays within the bounds
Room(fileList, maxEntries, maxInflight) ==
    /\ Len(inflight) + 1 <= maxInflight
    /\ (nextId - 1) + pendingMint + Len(imgsOf(fileList)) <= maxEntries

\* the addFiles call of a drop on tile idx, if it makes one
DropRoom(idx, dropped, maxEntries, maxInflight) ==
    (dropped # <<>> /\ files[idx] = NULL) => Room(slice0(dropped, 1), maxEntries, maxInflight)

\* the preview reads of n files: the first `varied` may fail, the others succeed
Previews(n, varied) == {oks \in [1 .. n -> BOOLEAN] : \A j \in 1 .. n : j > varied => oks[j]}

\* browsing for files, the previews resolving, removing and clearing
Filling(batches, maxEntries, maxInflight, maxSlot, varied) ==
    \/ \E picked \in batches :
          Room(picked, maxEntries, maxInflight) /\ onPickFiles(picked)
    \/ \E k \in 1 .. Len(inflight) :
          \E oks \in Previews(Len(inflight[k].imgs), varied) : resolveAdd(k, oks)
    \/ \E i \in 0 .. maxSlot : handleRemove(i)
    \/ clearAll

\* the slot picker and drag and drop
Arranging(candidates, maxEntries, maxInflight, maxBatch, maxSlot) ==
    \/ \E i \in 0 .. maxSlot : openSlotPicker(i)
    \/ \E picked \in SeqsUpTo(candidates, 1) :
          Room(picked, maxEntries, maxInflight) /\ slotPicked(picked)
    \/ \E i \in 0 .. maxSlot : onDragStart(i)
    \/ \E i \in 0 .. maxSlot, dropped \in SeqsUpTo(candidates, maxBatch) :
          DropRoom(i, dropped, maxEntries, maxInflight) /\ onDrop(i, dropped)

\* the exports, the manual links, the naming field, teardown
Exports(maxHandles) ==
    \/ (exportAborts(filled) \/ Len(urls) < maxHandles) /\ downloadZip
    \/ \E how \in {"zip.buildFail", "zip.urlFail"} : zipFails(how)
    \/ \E outcome \in TriggerOutcomes : zipDone(outcome)
    \/ (exportAborts(filled) \/ Len(urls) < maxHandles) /\ downloadIndividually
    \/ clearLinks
    \/ \E h \in timers : timerFires(h)
    \/ unmount
    \/ \E v \in ProductInputs : setProduct(v)

\* the whole application
Next ==
    \/ Filling(SeqsUpTo(Candidates, MaxBatch), MaxEntries, MaxInflight, MaxSlot, MaxBatch)
    \/ Arranging(Candidates, MaxEntries, MaxInflight, MaxBatch, MaxSlot)
    \/ Exports(MaxHandles)

Spec == Init /\ [][Next]_vars

\* ingestion and reordering, no export
NextSlots ==
    \/ Filling(SeqsUpTo(SlotsCandidates, SlotsMaxBatch), SlotsMaxEntries, SlotsMaxInflight,
               SlotsMaxSlot, SlotsMaxBatch)
    \/ Arranging(SlotsCandidates, SlotsMaxEntries, SlotsMaxInflight, SlotsMaxBatch, SlotsMaxSlot)

SpecSlots == Init /\ [][NextSlots]_vars

\* browsing, removing and the exports, no reordering
NextExport ==
    \/ Filling(SeqsUpTo(SlotsCandidates, ExportMaxBatch), ExportMaxEntries, ExportMaxInflight,
               ExportMaxSlot, ExportMaxBatch)
    \/ Exports(ExportMaxHandles)

SpecExport == Init /\ [][NextExport]_vars

\* the batches SpecFill browses: one file, two files, or a batch of the largest
\* size, all accepted or with a rejected file first
FillBatches(maxBatch) ==
    {[i \in 1 .. n |-> FileA] : n \in {1, 2, maxBatch}}
        \cup {[i \in 1 .. maxBatch |-> IF i = 1 THEN FileN ELSE FileA]}

\* whole batches filling the grid
NextFill == Filling(FillBatches(FillMaxBatch), FillMaxEntries, FillMaxInflight, FillMaxSlot, FillVaried)

SpecFill == Init /\ [][NextFill]_vars

\* browsing one file and exporting it again and again
NextLinks ==
    \/ Filling(SeqsUpTo({FileA}, LinksMaxBatch), LinksMaxEntries, LinksMaxInflight,
               LinksMaxSlot, 0)
    \/ Exports(LinksMaxHandles)

SpecLinks == Init /\ [][NextLinks]_vars

\* the awaits of downloadZip settle: the reads and generateAsync resolve or reject,
\* and the event loop then runs the rest of the function
zipSettles ==
    \/ \E outcome \in TriggerOutcomes : zipDone(outcome)
    \/ \E how \in {"zip.buildFail", "zip.urlFail"} : zipFails(how)

\* SpecLinks with every pending archive export running to its end
SpecLinksFair == Init /\ [][NextLinks]_vars /\ WF_vars(zipSettles)

\* the batches SpecTokens browses: one file, or a grid's worth
TokenBatches(maxBatch) == {[i \in 1 .. n |-> FileA] : n \in {1, maxBatch}}

\* filling the grid and exporting it as an archive
NextTokens ==
    \/ Filling(TokenBatches(TokensMaxBatch), TokensMaxEntries, TokensMaxInflight,
               TokensMaxSlot, 0)
    \/ Len(urls) < TokensMaxHandles /\ downloadZip
    \/ \E outcome \in TriggerOutcomes : zipDone(outcome)
    \/ \E h \in timers : timerFires(h)

SpecTokens == Init /\ [][NextTokens]_vars

\* browsing small and large batches, two at a time, while removing and reordering
NextRace ==
    \/ Filling({[i \in 1 .. n |-> FileA] : n \in {RaceSmallBatch, RaceLargeBatch}},
               RaceMaxEntries, RaceMaxInflight, RaceMaxSlot, 0)
    \/ \E i \in 0 .. RaceMaxSlot : onDragStart(i)
    \/ \E i \in 0 .. RaceMaxSlot : onDrop(i, <<>>)

SpecRace == Init /\ [][NextRace]_vars

\* the characters typed into the product field of SpecNames
NameChars == {"a", "Z", "1", "_", " ", "-"}

\* every text of at most MaxNameLen of them
NameInputs == SeqsUpTo(NameChars, MaxNameLen)

\* typing into the three naming fields
NextNames ==
    \/ \E v \in NameInputs : setProduct(v)
    \/ \E v \in DateInputs : setDate(v)
    \/ \E v \in DiffInputs : setDiff(v)

SpecNames == Init /\ [][NextNames]_vars

\* ------------------------------------------------- the list-based demo
\* amazon_image_renamer_drag_rename_demo.jsx is a second program. Its component
\* state, const [files, setFiles] = useState([]), is held in the variable files as
\* a sequence of [name, newName], names being character sequences; timers holds
\* its pending debounce timers; the other variables stay as Init leaves them.
demoIdle == <<nextId, inflight, dragIndex, product, date, diff, busy, status, notice,
              pendingLinks, urls, zip, downloads, archive, mounted, picker>>

RECURSIVE ToChars(_)
\* `${suffix}` as characters
ToChars(n) == IF n < 10 THEN <<Digits[n + 1]>> ELSE ToChars(n \div 10) \o <<Digits[(n % 10) + 1]>>

\* keys every object literal inherits with a truthy value, among them those typed here
ProtoKeys == {<<"v", "a", "l", "u", "e", "O", "f">>,
              <<"t", "o", "S", "t", "r", "i", "n", "g">>,
              <<"c", "o", "n", "s", "t", "r", "u", "c", "t", "o", "r">>,
              <<"_", "_", "p", "r", "o", "t", "o", "_", "_">>}

\* namesMap[candidate] is truthy; namesMap is modelled by the set of its own keys
inNamesMap(namesMap, candidate) == candidate \in namesMap \/ candidate \in ProtoKeys

RECURSIVE dedupeLoop(_, _, _, _, _)
\* while (namesMap[candidate]) { candidate = `${baseName}-${suffix}${ext}`; suffix++; }
dedupeLoop(baseName, ext, suffix, candidate, namesMap) ==
    IF inNamesMap(namesMap, candidate)
    THEN dedupeLoop(baseName, ext, suffix + 1,
                    baseName \o <<"-">> \o ToChars(suffix) \o ext, namesMap)
    ELSE [candidate |-> candidate, suffix |-> suffix]

\* dedupeName trying one suffix only
dedupeNameOnce(name, namesMap) ==
    LET d == lastDot(name, Len(name))
        baseName == IF d # 0 THEN SubSeq(name, 1, d - 1) ELSE name
        ext == IF d # 0 THEN SubSeq(name, d, Len(name)) ELSE <<>>
        candidate == IF inNamesMap(namesMap, name) THEN baseName \o <<"-", "1">> \o ext ELSE name
    IN  [candidate |-> candidate, namesMap |-> namesMap \cup {candidate},
         rounds |-> IF inNamesMap(namesMap, name) THEN 1 ELSE 0]

\* dedupeName: the name returned, the map after namesMap[candidate] = true, and
\* how many times the loop body ran
dedupeName(name, namesMap) ==
    LET d == lastDot(name, Len(name))
        baseName == IF d # 0 THEN SubSeq(name, 1, d - 1) ELSE name
        ext == IF d # 0 THEN SubSeq(name, d, Len(name)) ELSE <<>>
        r == dedupeLoop(baseName, ext, 1, name, namesMap)
    IN  [candidate |-> r.candidate, namesMap |-> namesMap \cup {r.candidate},
         rounds |-> r.suffix - 1]

\* \d
IsDigit(c) == \E i \in 1 .. Len(Digits) : Digits[i] = c

RECURSIVE digitsBefore(_, _)
\* the start of the run of digits of cs that ends at position i, i + 1 when cs[i] is none
digitsBefore(cs, i) == IF i >= 1 /\ IsDigit(cs[i]) THEN digitsBefore(cs, i - 1) ELSE i + 1

\* /\._SX\d+_\.([^.]*)$/ : where the match starts, 0 when there is none. The last
\* dot of the pattern is the last dot of the name, the capture being free of dots.
sizeSuffixStart(cs) ==
    LET d == lastDot(cs, Len(cs))
    IN  IF d < 7 \/ cs[d - 1] # "_" THEN 0
        ELSE LET b == digitsBefore(cs, d - 2)
             IN  IF b > d - 2 \/ b < 5 THEN 0
                 ELSE IF SubSeq(cs, b - 4, b - 1) = <<".", "_", "S", "X">> THEN b - 4 ELSE 0

\* filename.replace(regex, "." + RegExp.$1): the replacement is built before the
\* match is made, from the capture of the latest match made before this call; a
\* match then leaves its own capture in RegExp.$1
removeAmazonFileSizeSuffix(filename, dollar1) ==
    LET m == sizeSuffixStart(filename)
        d == lastDot(filename, Len(filename))
    IN  IF m = 0 THEN [name |-> filename, dollar1 |-> dollar1]
        ELSE [name |-> SubSeq(filename, 1, m - 1) \o <<".">> \o dollar1,
              dollar1 |-> SubSeq(filename, d + 1, Len(filename))]

RECURSIVE mapNewNames(_, _, _, _)
\* currentFiles.map((file) => ({ ...file, newName: dedupeName(file.newName ||
\* removeAmazonFileSizeSuffix(file.name), namesMap) })), from file i on
mapNewNames(currentFiles, i, namesMap, dollar1) ==
    IF i > Len(currentFiles) THEN <<>>
    ELSE LET file == currentFiles[i]
             stripped == IF file.newName # <<>> THEN [name |-> file.newName, dollar1 |-> dollar1]
                         ELSE removeAmazonFileSizeSuffix(file.name, dollar1)
             r == dedupeName(stripped.name, namesMap)
         IN  <<[name |-> file.name, newName |-> r.candidate]>>
                 \o mapNewNames(currentFiles, i + 1, r.namesMap, stripped.dollar1)

RECURSIVE joinNames(_)
\* files.map((f) => f.newName).join("")
joinNames(fs) == IF fs = <<>> THEN <<>> ELSE Head(fs).newName \o joinNames(Tail(fs))

\* the effect keyed on the joined names calls syncNewNames, which every render
\* builds anew with debounce: each run of the effect arms a timer of its own
armSync(tm, oldFiles, newFiles) ==
    IF joinNames(oldFiles) # joinNames(newFiles)
    THEN tm \cup {CHOOSE h \in 1 .. (Cardinality(tm) + 1) : h \notin tm}
    ELSE tm

\* the files the user selects or drops
DemoFileNames == {<<"a", ".", "j", "p", "g">>,
                  <<"a", ".", "_", "S", "X", "3", "_", ".", "j", "p", "g">>}

\* what the user types into the name field of an item
TypedNames == {<<>>, <<"a", "-", "1", ".", "j", "p", "g">>, <<"v", "a", "l", "u", "e", "O", "f">>}

\* RegExp.$1 as earlier matches in the page left it
StaleCaptures == {<<>>, <<"p", "n", "g">>}

handleFilesChange(selectedFiles) ==
    /\ selectedFiles # <<>>
    /\ files' = files \o [i \in 1 .. Len(selectedFiles) |->
                             [name |-> selectedFiles[i], newName |-> selectedFiles[i]]]
    /\ timers' = armSync(timers, files, files')
    /\ last' = Stamp("handleFilesChange", NoIndex, 0)
    /\ UNCHANGED demoIdle

updateName(index, newName) ==
    /\ index \in 0 .. (Len(files) - 1)
    /\ files' = [files EXCEPT ![index + 1].newName = newName]
    /\ timers' = armSync(timers, files, files')
    /\ last' = Stamp("updateName", NoIndex, 0)
    /\ UNCHANGED demoIdle

removeImage(index) ==
    /\ index \in 0 .. (Len(files) - 1)
    /\ files' = [i \in 1 .. (Len(files) - 1) |-> IF i <= index THEN files[i] ELSE files[i + 1]]
    /\ timers' = armSync(timers, files, files')
    /\ last' = Stamp("removeImage", NoIndex, 0)
    /\ UNCHANGED demoIdle

\* updated.splice(fromIndex, 1) and updated.splice(toIndex, 0, moved)
moveImage(fromIndex, toIndex) ==
    /\ fromIndex \in 0 .. (Len(files) - 1) /\ toIndex \in 0 .. (Len(files) - 1)
    /\ LET rest == [i \in 1 .. (Len(files) - 1) |->
                       IF i <= fromIndex THEN files[i] ELSE files[i + 1]]
       IN  files' = SubSeq(rest, 1, toIndex) \o <<files[fromIndex + 1]>>
                        \o SubSeq(rest, toIndex + 1, Len(rest))
    /\ timers' = armSync(timers, files, files')
    /\ last' = Stamp("moveImage", NoIndex, 0)
    /\ UNCHANGED demoIdle

\* the debounce timer h fires: syncNewNames runs its setFiles
syncNewNames(h, dollar1) ==
    /\ h \in timers
    /\ files' = mapNewNames(files, 1, {}, dollar1)
    /\ timers' = armSync(timers \ {h}, files, files')
    /\ last' = Stamp("syncNewNames", NoIndex, 0)
    /\ UNCHANGED demoIdle

\* the demo after its first render: no file, the effect has run once
InitDemo ==
    /\ files = <<>>
    /\ timers = {1}
    /\ last = Stamp("init", NoIndex, 0)
    /\ nextId = 1 /\ inflight = <<>> /\ dragIndex = NoIndex
    /\ product = <<>> /\ date = <<>> /\ diff = <<>>
    /\ busy = FALSE /\ status = "" /\ notice = ""
    /\ pendingLinks = <<>> /\ urls = <<>> /\ zip = <<>>
    /\ downloads = <<>> /\ archive = <<>>
    /\ mounted = TRUE /\ picker = NoIndex

\* the user adds, renames, removes and reorders; the timers fire
NextDemo ==
    \/ \E selectedFiles \in SeqsUpTo(DemoFileNames, 2) \ {<<>>} :
          /\ Len(files) + Len(selectedFiles) <= DemoMaxFiles
          /\ Cardinality(timers) < DemoMaxTimers
          /\ handleFilesChange(selectedFiles)
    \/ \E index \in 0 .. (DemoMaxFiles - 1), newName \in TypedNames :
          Cardinality(timers) < DemoMaxTimers /\ updateName(index, newName)
    \/ \E index \in 0 .. (DemoMaxFiles - 1) :
          Cardinality(timers) < DemoMaxTimers /\ removeImage(index)
    \/ \E fromIndex, toIndex \in 0 .. (DemoMaxFiles - 1) :
          Cardinality(timers) < DemoMaxTimers /\ moveImage(fromIndex, toIndex)
    \/ \E h \in timers, dollar1 \in StaleCaptures : syncNewNames(h, dollar1)

SpecDemo == InitDemo /\ [][NextDemo]_vars

\* ------------------------------------------------------------ properties
\* the occupied slots of an arrangement
Occupied(fs) == {i \in Slots : fs[i] # NULL}

\* the rank of slot s among the occupied slots, in ascending slot order
RankOf(fs, s) == Cardinality({t \in Occupied(fs) : t < s})

\* MAIN for rank 0, PT01 .. PT09 for the ranks ten slots allow
Designation(k) == IF k = 0 THEN "MAIN" ELSE "PT0" \o Digits[k + 1]

\* the j-th empty slot of an arrangement, in ascending order
NthEmpty(fs, j) ==
    CHOOSE s \in Slots \ Occupied(fs) : Cardinality({t \in Slots \ Occupied(fs) : t < s}) = j - 1

\* the latest step was the continuation of an addFiles call
Resolved(stamp) == stamp.op = "resolveAdd"

\* the latest step was a drop that called swapFiles
Swapped(stamp) == stamp.op = "onDrop.swap"

\* C1: whatever adds (targeted or not), removes, swaps and clear-alls ran, and however
\* their asynchronous completions interleaved, the slot array has exactly 10
\* positions and no two occupied slots hold entries with the same identifier.
C1_SlotInvariant ==
    /\ DOMAIN files = 0 .. 9
    /\ \A i, j \in Occupied(files) : i # j => files[i].id # files[j].id

\* a real swap of two occupied slots has just happened
C1_Witness ==
    /\ Swapped(last) /\ last.n # NoIndex /\ last.n # last.idx
    /\ files[last.n] # NULL /\ files[last.idx] # NULL

\* C2: when a targeted addFiles for slot t resolves after the occupant of t changed
\* (another add, a swap, a remove, a clear), the late result is discarded: slot t
\* keeps the entry it holds at resolution time.
C2_StaleResultDiscarded ==
    [][(/\ Resolved(last') /\ last'.idx # NoIndex
        /\ inflight[last'.n].seen # files[last'.idx].id)
          => files'[last'.idx] = files[last'.idx]]_vars

\* C3: every object URL created is revoked exactly once: never twice, and none is
\* left unrevoked once the component is torn down and nothing is pending.
C3_ReleasedExactlyOnce ==
    /\ \A h \in DOMAIN urls : urls[h] <= 1
    /\ (~mounted /\ timers = {} /\ zip = <<>>) => \A h \in DOMAIN urls : urls[h] = 1

\* the filenames the current render computes, by the designation of each rank
ExpectedNames(fs) ==
    [k \in 1 .. Cardinality(Occupied(fs)) |->
        LET s == CHOOSE t \in Occupied(fs) : RankOf(fs, t) = k - 1
        IN  Join(normalize(product)) \o "_" \o Join(date) \o "_" \o Join(normalize(diff)) \o "_"
                \o Designation(k - 1) \o "." \o getExt(fs[s].file.name)]

\* C4: in every reachable slot state the designation of an occupied slot is given by
\* its rank among the occupied slots, not by its index: rank 0 is MAIN, rank k is PT
\* and k on two digits. The badge and the filename preview show it, the individual
\* export downloads under it, and the archive export stores each entry under the
\* designation it had in the slot state the export was started from.
C4_DesignationByRank ==
    /\ [](/\ \A s \in Occupied(files) : badge(s) = Designation(RankOf(files, s))
          /\ \A s \in Slots \ Occupied(files) : badge(s) = ""
          /\ computeFinalNames = ExpectedNames(files)
          /\ last.op = "downloadIndividually" =>
                \A j \in 1 .. Len(downloads) : downloads[j].name = ExpectedNames(files)[j])
    /\ [][last'.op = "downloadZip" => zip'[1].filled = filledOf(files)]_vars
    /\ [][last'.op = "zip.done" =>
            /\ Len(archive') = Len(zip[1].filled)
            /\ \A j \in 1 .. Len(archive') :
                  /\ archive'[j].id = zip[1].filled[j].id
                  /\ archive'[j].path =
                        Join(zip[1].np) \o "_" \o Join(zip[1].date) \o "_" \o Join(zip[1].nd) \o "_"
                            \o Designation(j - 1) \o "." \o getExt(zip[1].filled[j].file.name)]_vars

\* slot 0 is empty and slot 1 filled, so rank and index differ, and an individual
\* export has just run
C4_Witness ==
    /\ files[0] = NULL /\ files[1] # NULL
    /\ last.op = "downloadIndividually" /\ Len(downloads) = 1

\* C5: slot mutations take effect in the order the user actions were issued: no
\* mutation is applied while an action issued before it has not yet applied its own.
C5_AppliedInIssueOrder ==
    [][/\ (\/ last'.op \in {"handleRemove", "clearAll"}
           \/ (Swapped(last') /\ ~swapReturnsEarly(dragIndex, last'.idx)))
          => inflight = <<>>
       /\ Resolved(last') => last'.n = 1]_vars

\* C6: an untargeted addFiles takes at most 10 accepted files, in batch order, and its
\* continuation puts them, in that order, into the empty slots of lowest index; the
\* slots occupied before keep their entries, and the files no empty slot is left
\* for are dropped without any notice.
C6_UntargetedFill ==
    /\ [](\A k \in 1 .. Len(inflight) : Len(inflight[k].imgs) <= 10)
    /\ [][last'.op = "onPickFiles" /\ Len(inflight') > Len(inflight) =>
            \E picked \in FillBatches(FillMaxBatch) :
                LET accepted == SelectSeq(picked, isImage)
                IN  inflight'[Len(inflight')].imgs = SubSeq(accepted, 1, Min(10, Len(accepted)))]_vars
    /\ [][(Resolved(last') /\ last'.idx = NoIndex) =>
            LET r == inflight[last'.n]
                m == Min(Cardinality(Slots \ Occupied(files)), Len(r.imgs))
                placed == {NthEmpty(files, j) : j \in 1 .. m}
            IN  /\ \A j \in 1 .. m :
                      /\ files'[NthEmpty(files, j)].file = r.imgs[j]
                      /\ files'[NthEmpty(files, j)].id = nextId + j - 1
                /\ \A s \in Slots \ placed : files'[s] = files[s]
                /\ notice' = ""]_vars

\* a batch has just resolved into a grid with too few empty slots: the grid is full
\* and the entry minted last is in no slot
C6_Witness ==
    /\ Resolved(last) /\ last.idx = NoIndex
    /\ Occupied(files) = Slots
    /\ \A s \in Slots : files[s].id # nextId - 1

C8_SwapNoOp ==
    [][(Swapped(last') /\ (dragIndex = NoIndex \/ dragIndex = last'.idx)) => files' = files]_vars

\* a drop with no recorded source has just landed on a filled tile
C8_Witness == Swapped(last) /\ last.n = NoIndex /\ files[last.idx] # NULL

\* C9: from every reachable arrangement and for every pair of slots a, b in 0..9,
\* swapFiles(a, b) applied twice gives the arrangement back.
C9_SwapInvolution ==
    \A a, b \in 0 .. 9 : swapFiles(swapFiles(files, a, b), a, b) = files

\* a swap has just moved an entry into an empty slot, so swapping changes the slots
C9_Witness ==
    /\ Swapped(last) /\ last.n # NoIndex /\ last.n # last.idx
    /\ files[last.idx] # NULL /\ files[last.n] = NULL

\* C10: with no slot filled, either export only shows the notice: slots, manual links,
\* status line and busy flag stay as they were, no object URL is created and no
\* download is triggered.
C10_EmptyExportAborts ==
    [][(/\ filled = <<>>
        /\ last'.op \in {"downloadZip", "downloadZip.empty",
                         "downloadIndividually", "downloadIndividually.empty"})
          => /\ notice' = NoticeEmpty
             /\ files' = files /\ pendingLinks' = pendingLinks
             /\ status' = status /\ busy' = busy
             /\ urls' = urls /\ timers' = timers /\ zip' = zip
             /\ downloads' = <<>> /\ archive' = <<>>]_vars

\* an export has just been refused while a manual link of an earlier export is shown
C10_Witness ==
    /\ last.op \in {"downloadZip.empty", "downloadIndividually.empty"}
    /\ notice = NoticeEmpty /\ pendingLinks # <<>>

\* C11: when an archive export has built its archive, the manual link for the
\* archive, holding a fresh object URL that is not revoked, is put at the head of
\* the pending links before the automatic download is attempted (the URL of the
\* anchor fallback is created after the link's), and it is there afterwards
\* whatever the trigger returned.
C11_ManualLinkBeforeTrigger ==
    [][(last'.op = "zip.done" /\ mounted) =>
          LET h == Len(urls) + 1
          IN  /\ pendingLinks' # <<>>
              /\ pendingLinks'[1] = [name |-> zipName(zip[1].np, zip[1].date, zip[1].nd),
                                     url |-> BlobUrl(h)]
              /\ h \in DOMAIN urls' /\ urls'[h] = 0
              /\ Len(downloads') = 1
              /\ downloads'[1].name = pendingLinks'[1].name
              /\ (timers' \ timers) \subseteq {h + 1}
              /\ (DOMAIN urls') \ (DOMAIN urls) \subseteq {h, h + 1}]_vars

\* an archive export has just ended with its trigger reporting failure, and the
\* manual link is shown
C11_Witness ==
    /\ last.op = "zip.done" /\ mounted
    /\ Len(downloads) = 1 /\ ~downloads[1].ok
    /\ pendingLinks # <<>> /\ pendingLinks[1].name = downloads[1].name

\* C12: one pass of the individual export attempts one trigger for every filled
\* slot, in filled order, and each trigger that fails leaves a manual link for
\* its file in the pending links.
C12_EveryTriggerAttempted ==
    [][last'.op = "downloadIndividually" =>
          /\ Len(downloads') = Len(filled)
          /\ \A j \in 1 .. Len(filled) : downloads'[j].name = buildFilename(j - 1, filled[j])
          /\ \A j \in 1 .. Len(filled) :
                ~downloads'[j].ok =>
                    \E l \in 1 .. Len(pendingLinks') : pendingLinks'[l].name = downloads'[j].name]_vars

\* C13 (as amended): an entry of the pending links stays in the list through every
\* step but two: an archive export drops the earlier entries that have the name of
\* its own link, and "Clear links" empties the list and revokes the object URL of
\* every entry it removes.
C13_LinksKept ==
    [][/\ last'.op # "clearLinks" =>
            \A j \in 1 .. Len(pendingLinks) :
                \/ \E k \in 1 .. Len(pendingLinks') : pendingLinks'[k] = pendingLinks[j]
                \/ /\ last'.op = "zip.done"
                   /\ pendingLinks[j].name = zipName(zip[1].np, zip[1].date, zip[1].nd)
       /\ last'.op = "clearLinks" =>
            /\ pendingLinks' = <<>>
            /\ \A j \in 1 .. Len(pendingLinks) :
                  IsBlob(pendingLinks[j].url) => urls'[pendingLinks[j].url.n] >= 1]_vars

\* an archive export has just added its link to a list that kept an earlier link
C13_Witness == last.op = "zip.done" /\ mounted /\ Len(pendingLinks) >= 2

\* C13 as claimed: only "Clear links" removes an entry.
C13_AppendOnly ==
    [][last'.op # "clearLinks" =>
          \A j \in 1 .. Len(pendingLinks) :
              \E k \in 1 .. Len(pendingLinks') : pendingLinks'[k] = pendingLinks[j]]_vars

\* C14: when a byte read or the generation of the archive fails, the export ends
\* with the generic failure status and notice, busy reset, the pending links as
\* they were, no download attempted and no object URL created.
C14_BuildFailureAborts ==
    [][(last'.op = "zip.buildFail" /\ mounted) =>
          /\ busy /\ ~busy'
          /\ status' = StatusZipError
          /\ notice' = NoticeZipError
          /\ pendingLinks' = pendingLinks
          /\ downloads' = <<>> /\ archive' = <<>>
          /\ urls' = urls /\ timers' = timers
          /\ files' = files]_vars

\* an archive export has just failed while building, with links pending from before
C14_Witness ==
    /\ last.op = "zip.buildFail" /\ mounted
    /\ status = StatusZipError /\ ~busy /\ pendingLinks # <<>>

\* the type tokens of the ranks 0 .. 10, as the dev-time checks spell them
TypeTokens == <<"MAIN", "PT01", "PT02", "PT03", "PT04", "PT05", "PT06", "PT07", "PT08",
                "PT09", "PT10">>

\* C15: imageTypeForIndex(0) is MAIN and imageTypeForIndex(i) is PT01 ... PT10 for
\* i = 1 .. 10; an archive built from the default naming fields names its j-th
\* entry with the j-th of these tokens.
C15_TypeTokens ==
    /\ \A i \in 0 .. 10 : imageTypeForIndex(i) = TypeTokens[i + 1]
    /\ \A j \in 1 .. Len(archive) :
          archive[j].path = "TW_NOSEKIT_202511_WOMENREFRESH_" \o TypeTokens[j] \o ".jpg"

\* a full grid has just been archived: its last entry carries PT09
C15_Witness ==
    /\ last.op = "zip.done" /\ Len(archive) = 10
    /\ archive[10].path = "TW_NOSEKIT_202511_WOMENREFRESH_PT09.jpg"

\* s without its leading and trailing whitespace
Trimmed(s) ==
    IF \A i \in 1 .. Len(s) : IsSpace(s[i]) THEN <<>>
    ELSE LET inner == {i \in 1 .. Len(s) : ~IsSpace(s[i])}
             lo == CHOOSE i \in inner : \A j \in inner : i <= j
             hi == CHOOSE i \in inner : \A j \in inner : j <= i
         IN  SubSeq(s, lo, hi)

\* the capital of a letter, any other character as it is
Capital(c) ==
    IF \E k \in 1 .. 26 : LowerLetters[k] = c
    THEN UpperLetters[CHOOSE k \in 1 .. 26 : LowerLetters[k] = c]
    ELSE c

\* s trimmed, in capitals, each run of whitespace turned into one underscore: of
\* the trimmed text the positions kept are those that hold no whitespace or that
\* begin a run of it
Underscored(s) ==
    LET t == Trimmed(s)
        kept == {i \in 1 .. Len(t) : ~IsSpace(t[i]) \/ i = 1 \/ ~IsSpace(t[i - 1])}
    IN  [n \in 1 .. Cardinality(kept) |->
            LET i == CHOOSE x \in kept : Cardinality({y \in kept : y < x}) = n - 1
            IN  IF IsSpace(t[i]) THEN "_" ELSE Capital(t[i])]

\* ... and then each character outside [A-Z0-9_] turned into an underscore
SpecialsReplaced(s) ==
    LET u == Underscored(s)
    IN  [n \in 1 .. Len(u) |-> IF IsNameChar(u[n]) THEN u[n] ELSE "_"]

\* ... or else each character outside [A-Z0-9_] removed
SpecialsStripped(s) == SelectSeq(Underscored(s), IsNameChar)

\* C16 (as amended): normalize(s) is s trimmed, uppercased, each run of whitespace
\* replaced by one underscore and then each character outside [A-Z0-9_] replaced
\* by an underscore, none removed; the empty string normalizes to the empty string.
C16_NormalizeReplaces ==
    /\ normalize(product) = SpecialsReplaced(product)
    /\ normalize(diff) = SpecialsReplaced(diff)
    /\ Len(normalize(product)) = Len(Underscored(product))
    /\ normalize(<<>>) = <<>>
    /\ normalize(<<"T", "w", " ", "N", "o", "s", "e", " ", "K", "i", "t", "!">>)
          = <<"T", "W", "_", "N", "O", "S", "E", "_", "K", "I", "T", "_">>
    /\ normalize(<<"w", "o", "m", "e", "n", " ", " ", "r", "e", "f">>)
          = <<"W", "O", "M", "E", "N", "_", "R", "E", "F">>

\* the product field has just been set to a text with a special character in it,
\* which is still there as an underscore
C16_Witness ==
    /\ last.op = "setProduct"
    /\ product = <<"a", " ", "-">>
    /\ normalize(product) = <<"A", "_", "_">>

\* C16 as claimed: the characters outside [A-Z0-9_] are removed.
C16_NormalizeStrips ==
    /\ normalize(product) = SpecialsStripped(product)
    /\ normalize(diff) = SpecialsStripped(diff)

\* C17: normalize is idempotent on whatever the naming fields hold.
C17_NormalizeIdempotent ==
    /\ normalize(normalize(product)) = normalize(product)
    /\ normalize(normalize(diff)) = normalize(diff)

\* the product field has just been set to a text that normalize changes in each of
\* its steps but the collapsing
C17_Witness ==
    /\ last.op = "setProduct"
    /\ product = <<" ", "a", "-">>
    /\ normalize(product) = <<"A", "_">>

\* C18: in one export no two filled slots get the same filename, each rank having
\* its own type token: the names of the filename preview, the names an individual
\* export triggers and the paths of an archive are pairwise distinct, and the
\* archive holds one entry for each slot that was filled when the export began.
C18_NamesDistinct ==
    /\ [](/\ \A i, j \in 0 .. 9 : i # j => imageTypeForIndex(i) # imageTypeForIndex(j)
          /\ \A i, j \in 1 .. Len(computeFinalNames) :
                i # j => computeFinalNames[i] # computeFinalNames[j]
          /\ \A i, j \in 1 .. Len(downloads) : i # j => downloads[i].name # downloads[j].name
          /\ \A i, j \in 1 .. Len(archive) : i # j => archive[i].path # archive[j].path)
    /\ [][last'.op = "zip.done" =>
             /\ Len(archive') = Len(zip[1].filled)
             /\ \A j \in 1 .. Len(archive') : archive'[j].id = zip[1].filled[j].id]_vars

\* two entries made from files of the same name have just been archived
C18_Witness ==
    /\ last.op = "zip.done" /\ Len(archive) = 2
    /\ files[0] # NULL /\ files[1] # NULL /\ files[0].file = files[1].file

\* C19: a preview that fails drops nothing: the entry carries the file, the error
\* flag and no preview; the slots are filled as they would be had every preview
\* succeeded; every occupied slot counts in filled; and both exports go through
\* filled in order without skipping an entry.
C19_FailedPreviewKept ==
    /\ [](/\ \A t \in Occupied(files) :
                /\ files[t].file # NoFile
                /\ files[t].error <=> files[t].url = EmptyUrl
                /\ files[t].error <=> files[t].url # DataUrl
          /\ Len(filled) = Cardinality(Occupied(files)))
    /\ [][(Resolved(last') /\ mounted) =>
             LET r == inflight[last'.n]
                 good == placePrepared(files,
                             prepare(r.imgs, nextId, [j \in 1 .. Len(r.imgs) |-> TRUE]),
                             r.target)
             IN  \A t \in Slots :
                    /\ files'[t] = NULL <=> good[t] = NULL
                    /\ files'[t] # NULL =>
                          files'[t].id = good[t].id /\ files'[t].file = good[t].file]_vars
    /\ [][last'.op = "downloadZip" => zip'[1].filled = filled]_vars
    /\ [][last'.op = "zip.done" =>
             /\ Len(archive') = Len(zip[1].filled)
             /\ \A j \in 1 .. Len(archive') : archive'[j].id = zip[1].filled[j].id]_vars
    /\ [][last'.op = "downloadIndividually" =>
             /\ Len(downloads') >= 1 /\ Len(downloads') <= Len(filled)
             /\ \A j \in 1 .. Len(downloads') : downloads'[j].name = buildFilename(j - 1, filled[j])
             /\ status' # StatusIndividualError => Len(downloads') = Len(filled)]_vars

\* an archive has just been built that holds an entry whose preview failed
C19_Witness ==
    /\ last.op = "zip.done"
    /\ \E t \in Occupied(files) :
          /\ files[t].error /\ files[t].url = EmptyUrl
          /\ \E j \in 1 .. Len(archive) : archive[j].id = files[t].id

\* C20: a drop on tile t that carries an external file while t is empty is a
\* targeted addFiles of the first dropped file into t and moves no entry; every
\* other drop is swapFiles(recorded source, t) and starts no ingestion; after
\* either the recorded source is cleared.
C20_DropDispatch ==
    [][\A t \in 0 .. SlotsMaxSlot : \A d \in SeqsUpTo(SlotsCandidates, SlotsMaxBatch) :
          onDrop(t, d) =>
             /\ dragIndex' = NoIndex
             /\ IF d # <<>> /\ files[t] = NULL
                THEN /\ files' = files
                     /\ IF isImage(d[1])
                        THEN /\ Len(inflight') = Len(inflight) + 1
                             /\ SubSeq(inflight', 1, Len(inflight)) = inflight
                             /\ inflight'[Len(inflight')].imgs = <<d[1]>>
                             /\ inflight'[Len(inflight')].target = t
                        ELSE inflight' = inflight
                ELSE /\ inflight' = inflight
                     /\ IF dragIndex = NoIndex \/ dragIndex = t
                        THEN files' = files
                        ELSE /\ files'[t] = files[dragIndex]
                             /\ files'[dragIndex] = files[t]
                             /\ \A u \in Slots \ {t, dragIndex} : files'[u] = files[u]]_vars

\* a file has just been dropped on an empty tile: its ingestion into that tile is
\* in flight and no drag source is recorded
C20_Witness ==
    /\ last.op = "onDrop.add" /\ dragIndex = NoIndex
    /\ files[last.idx] = NULL
    /\ inflight # <<>> /\ inflight[Len(inflight)].target = last.idx

\* C21: every link in the list of manual links that the mounted component shows
\* holds an object URL that has not been revoked.
C21_ShownLinksLive ==
    mounted =>
        \A j \in 1 .. Len(pendingLinks) :
            IsBlob(pendingLinks[j].url) => urls[pendingLinks[j].url.n] = 0

\* C22: whichever of the untargeted adds in flight resolves, and whatever was
\* removed or swapped meanwhile, its placement leaves every occupied slot as it
\* is and puts its files, in batch order, into empty slots for as long as one is
\* left: min(batch size, empty slots) files are placed.
C22_ConcurrentFillsKeepEntries ==
    [][(Resolved(last') /\ last'.idx = NoIndex /\ mounted) =>
          LET r == inflight[last'.n]
              free == NumSlots - Cardinality(Occupied(files))
              m == Min(Len(r.imgs), free)
          IN  /\ \A t \in Occupied(files) : files'[t] = files[t]
              /\ Cardinality(Occupied(files')) = Cardinality(Occupied(files)) + m
              /\ \A j \in 1 .. m :
                    \E t \in Slots \ Occupied(files) :
                        /\ files'[t] # NULL
                        /\ files'[t].id = nextId + j - 1
                        /\ files'[t].file = r.imgs[j]]_vars

\* the later of two adds in flight has just resolved first, into a grid that
\* already held entries and now is full
C22_Witness ==
    /\ Resolved(last) /\ last.idx = NoIndex /\ last.n = 2
    /\ Len(inflight) = 1
    /\ Occupied(files) = Slots

\* C23: an export that sets busy resets it: the archive export when its awaits have
\* settled, whether the download was triggered, blocked or the build failed, the
\* individual export before its handler returns; and while busy is set no export
\* and no clear-all starts.
C23_BusyReset ==
    /\ busy ~> (~busy \/ ~mounted)
    /\ [][(last'.op \in {"zip.done", "zip.buildFail", "zip.urlFail"} /\ mounted)
             => busy /\ ~busy']_vars
    /\ [][last'.op = "downloadIndividually" => ~busy']_vars
    /\ [][busy => last'.op \notin {"downloadZip", "downloadZip.empty", "downloadIndividually",
                                    "downloadIndividually.empty", "clearAll"}]_vars

\* an archive export whose download the browser blocked has just ended, busy reset
C23_Witness ==
    /\ last.op = "zip.done" /\ mounted /\ ~busy
    /\ notice = NoticeZipBlocked /\ status = StatusZipBlocked

RECURSIVE syncCalls(_, _, _, _)
\* the calls of dedupeName that one run of syncNewNames makes over currentFiles:
\* the map each call is given, the name it returns, the rounds of its loop
syncCalls(currentFiles, i, namesMap, dollar1) ==
    IF i > Len(currentFiles) THEN <<>>
    ELSE LET file == currentFiles[i]
             stripped == IF file.newName # <<>> THEN [name |-> file.newName, dollar1 |-> dollar1]
                         ELSE removeAmazonFileSizeSuffix(file.name, dollar1)
             r == dedupeName(stripped.name, namesMap)
         IN  <<[before |-> namesMap, name |-> stripped.name, returned |-> r.candidate,
                rounds |-> r.rounds]>>
                 \o syncCalls(currentFiles, i + 1, r.namesMap, stripped.dollar1)

\* C24: in the list-based demo every call of dedupeName ends, after at most as
\* many rounds as the map has keys, with a name the map did not hold, own or
\* inherited, before the call, which is the name given when that one was free;
\* and once syncNewNames has run over the list, the newName of its files are
\* pairwise distinct, the files and their order being as they were.
C24_DedupedNamesDistinct ==
    /\ [](\A dollar1 \in StaleCaptures :
            LET calls == syncCalls(files, 1, {}, dollar1)
            IN  \A k \in 1 .. Len(calls) :
                   /\ ~inNamesMap(calls[k].before, calls[k].returned)
                   /\ calls[k].rounds <= Cardinality(calls[k].before \cup ProtoKeys)
                   /\ ~inNamesMap(calls[k].before, calls[k].name)
                         => calls[k].returned = calls[k].name)
    /\ [][last'.op = "syncNewNames" =>
             /\ Len(files') = Len(files)
             /\ \A i \in 1 .. Len(files) : files'[i].name = files[i].name
             /\ \A i, j \in 1 .. Len(files') :
                   i # j => files'[i].newName # files'[j].newName]_vars

\* syncNewNames has run over three files of one name and numbered two of them
C24_Witness ==
    /\ last.op = "syncNewNames"
    /\ Len(files) = DemoMaxFiles
    /\ \A i \in 1 .. Len(files) : files[i].name = files[1].name
    /\ files[1].newName = files[1].name
    /\ files[2].newName = <<"a", "-", "1", ".", "j", "p", "g">>
    /\ files[3].newName = <<"a", "-", "2", ".", "j", "p", "g">>
====
